---- MODULE Spec2Model ----
(***************************************************************************)
(* PI-vs-538.py: compare FiveThirtyEight's chances with PredictIt prices   *)
(* for a fixed list of states.  The script is sequential: read fte.csv,    *)
(* fill the forecast attributes of every State object, fetch the market    *)
(* of every state with a fixed-count retry loop, then print the table.     *)
(*                                                                         *)
(* Numbers are fixed-point with three decimals: 33.2 is 33200, the price   *)
(* 0.30 is 300 and 0.30 * 100 is 30000.  An attribute that was never set   *)
(* on a State object is a key missing from DOMAIN rec[s], which is what    *)
(* the AttributeError test of the printing loop looks at.                  *)
(*                                                                         *)
(* The inputs are the content of fte.csv, what requests.get does on each   *)
(* attempt, and the entries of each Contracts list, drawn one by one as    *)
(* the loop over the contracts reaches them.  A forecast cell is a decimal *)
(* number or text float() rejects; a BestBuyYesCost is a number or null.   *)
(* Arithmetic on the decimals is exact.  call records the getContentDict   *)
(* call in progress; once a call has ended the record is kept for one step.*)
(***************************************************************************)
EXTENDS Integers, Sequences, FiniteSets, TLC

\* ------------------------------------------------------------ bounds
NumStates == 2        \* the first NumStates entries of sorted(stateNames)
MaxRows == 2          \* data rows in fte.csv
MaxContracts == 2     \* entries of a Contracts array

\* ------------------------------------------------------------ constants
tries == 5

abbrs == <<"AZ", "CO", "FL", "GA", "IA", "MI", "MN", "NC", "NH", "NV", "OH", "PA", "VA", "WI">>

states == 1..NumStates

VARIABLES
    pc,          \* position of the script
    csvFile,     \* fte.csv as found in the working directory
    fteChances,  \* list(reader): the rows as dicts
    rec,         \* rec[s]: the attributes set on the State object s (beyond abbr, name)
    state,       \* the loop variable of the loop the script is in (index into states)
    i,           \* getContentDict: iterations of range(tries) completed in the current call
    call,        \* the getContentDict call in progress, or the one that ended in the last step
    nContracts,  \* contract entries of the returned list already iterated
    fteOut,      \* fteOut[s]: the 'Read FTE chances' line of state s
    piOut,       \* piOut[s]: the 'Get PI prices' line of state s
    diagnostic,  \* 'Could not find FiveThirtyEight data...' was printed
    header,      \* the three table header lines were printed
    table,       \* the rows printed
    badData,     \* the list badData of the printing loop
    insufficient \* the codes on the 'Insufficient data:' line (<<>>: no such line)

vars == <<pc, csvFile, fteChances, rec, state, i, call, nContracts,
          fteOut, piOut, diagnostic, header, table, badData, insufficient>>

\* ------------------------------------------------------------ helpers
Range(f) == {f[x] : x \in DOMAIN f}

SeqsUpTo(S, n) == UNION {[1..k -> S] : k \in 0..n}

Put(f, k, v) == [x \in DOMAIN f \cup {k} |-> IF x = k THEN v ELSE f[x]]

\* ------------------------------------------------------------ fte.csv
NoFile == [exists |-> FALSE, fieldnames |-> <<>>, lines |-> <<>>]

GoodHeader == <<"state", "dem", "rep">>
BadHeader == <<"State", "dem", "rep">>

\* the data lines: the docstring's AZ row, a row with a percentage above 100 and
\* a row whose rep cell is no number, each for one of the first two states
CellPairs == {<<"33.2", "66.8">>, <<"29.2", "170.8">>, <<"33.2", "n/a">>}

FteLines == {<<abbrs[k], p[1], p[2]>> : k \in states, p \in CellPairs}

FteFiles == {NoFile} \cup
    {[exists |-> TRUE, fieldnames |-> h, lines |-> ls] :
        h \in {GoodHeader, BadHeader}, ls \in SeqsUpTo(FteLines, MaxRows)}

\* csv.DictReader: the first line names the keys of every row dict
DictReader(file) ==
    [n \in DOMAIN file.lines |->
        [key \in Range(file.fieldnames) |->
            file.lines[n][CHOOSE c \in DOMAIN file.fieldnames : file.fieldnames[c] = key]]]

\* float(text) of a csv cell; text that is no number raises ValueError
Floats == {"33.2", "66.8", "29.2", "170.8"}

float(text) ==
    CASE text = "33.2" -> 33200
      [] text = "66.8" -> 66800
      [] text = "29.2" -> 29200
      [] text = "170.8" -> 170800

\* ------------------------------------------------------------ Read FTE chances
\* lines 72-78 for one state: the rows from row n on.  how is "good" (break),
\* "fail" (no row matched) or "raise" (KeyError, ValueError: uncaught);
\* put holds the attributes assigned on the way.
\* the scan without the break of line 78: a later matching row overwrites
RECURSIVE FteScanNoBreak(_, _, _)
FteScanNoBreak(rows, abbr, n) ==
    IF n > Len(rows) THEN [how |-> "fail", put |-> <<>>]
    ELSE LET row == rows[n]
             rest == FteScanNoBreak(rows, abbr, n + 1)
         IN
        IF "state" \notin DOMAIN row THEN [how |-> "raise", put |-> <<>>]
        ELSE IF row["state"] # abbr THEN rest
        ELSE IF "dem" \notin DOMAIN row \/ row["dem"] \notin Floats
            THEN [how |-> "raise", put |-> <<>>]
        ELSE IF "rep" \notin DOMAIN row \/ row["rep"] \notin Floats
            THEN [how |-> "raise", put |-> Put(<<>>, "fteDemChance", float(row["dem"]))]
        ELSE IF rest.how = "fail"
            THEN [how |-> "good",
                  put |-> Put(Put(<<>>, "fteDemChance", float(row["dem"])),
                              "fteRepChance", float(row["rep"]))]
        ELSE rest

RECURSIVE FteScan(_, _, _)
FteScan(rows, abbr, n) ==
    IF n > Len(rows) THEN [how |-> "fail", put |-> <<>>]
    ELSE LET row == rows[n] IN
        IF "state" \notin DOMAIN row THEN [how |-> "raise", put |-> <<>>]
        ELSE IF row["state"] # abbr THEN FteScan(rows, abbr, n + 1)
        ELSE IF "dem" \notin DOMAIN row \/ row["dem"] \notin Floats
            THEN [how |-> "raise", put |-> <<>>]
        ELSE IF "rep" \notin DOMAIN row \/ row["rep"] \notin Floats
            THEN [how |-> "raise", put |-> Put(<<>>, "fteDemChance", float(row["dem"]))]
        ELSE [how |-> "good",
              put |-> Put(Put(<<>>, "fteDemChance", float(row["dem"])),
                          "fteRepChance", float(row["rep"]))]

Merge(f, g) == [x \in DOMAIN f \cup DOMAIN g |-> IF x \in DOMAIN g THEN g[x] ELSE f[x]]

\* ------------------------------------------------------------ Printing
\* format(n, '0.0f'): round half to even, '-' for every negative n (also -0.4: '-0')
Round(n) ==
    LET q == n \div 1000
        r == n % 1000
    IN  IF r > 500 \/ (r = 500 /\ q % 2 = 1) THEN q + 1 ELSE q

format(n) == IF n < 0 THEN "-" \o ToString(Round(-n)) ELSE ToString(Round(n))

\* int(n): truncation towards zero
int(n) == IF n < 0 THEN -((-n) \div 1000) ELSE n \div 1000

addSign(n) == IF int(n) > 0 THEN "+" \o format(n) ELSE format(n)

FourValues == {"fteDemChance", "fteRepChance", "piDemPrice", "piRepPrice"}

\* the test of line 167 without piRepPrice
CompleteButRepPrice(s) == {"fteDemChance", "fteRepChance", "piDemPrice"} \subseteq DOMAIN rec[s]

\* line 167: no AttributeError on any of the four values
Complete(s) == FourValues \subseteq DOMAIN rec[s]

\* lines 171-177 read these attributes of the state
RowValues == {"fteDemChance", "fteRepChance", "piDemChance", "piRepChance"}

Row(s) ==
    [abbr |-> abbrs[s],
     fteDemPercent |-> format(rec[s]["fteDemChance"]) \o "%",
     piDemPercent |-> format(rec[s]["piDemChance"]) \o "c",
     demDiff |-> addSign(rec[s]["piDemChance"] - rec[s]["fteDemChance"]),
     fteRepPercent |-> format(rec[s]["fteRepChance"]) \o "%",
     piRepPercent |-> format(rec[s]["piRepChance"]) \o "c",
     repDiff |-> addSign(rec[s]["piRepChance"] - rec[s]["fteRepChance"])]

\* ------------------------------------------------------------ the endpoint
\* what requests.get does on one attempt: it throws, or it returns a response
Bodies == {"null", "{}", "{Contracts}"}

Responses ==
    {[throws |-> TRUE, status_code |-> 0, content |-> ""]} \cup
    {[throws |-> FALSE, status_code |-> c, content |-> b] : c \in {200, 500}, b \in Bodies}

\* line 95 without the test of the body
GoodStatus(r) == r.status_code = 200

\* line 95
Good(r) == r.status_code = 200 /\ r.content # "null"

\* line 96: r.json()['Contracts'] returns the list; on null it is None['Contracts']
\* (TypeError), on a body without the key a KeyError
HasContracts(content) == content = "{Contracts}"

\* range(n - 1)
InRangeLessOne(k, n) == k < n - 1

\* line 92: for i in range(n) has an iteration k
InRange(k, n) == k < n

\* the kind of an attempt, for the record of the call
Kind(r) ==
    IF r.throws THEN "throws"
    ELSE IF r.status_code # 200 THEN "non200"
    ELSE IF r.content = "null" THEN "null"
    ELSE "ok"

\* the entries of a Contracts list: the two contracts of a market at 0.30 and
\* 0.70, and a contract with another name
Names == {"Democratic", "Republican", "Libertarian"}

Contracts ==
    {[Name |-> "Democratic", BestBuyYesCost |-> 300],
     [Name |-> "Republican", BestBuyYesCost |-> 700],
     [Name |-> "Libertarian", BestBuyYesCost |-> 300]}

\* ------------------------------------------------------------ the script
NoCall == [of |-> 0, log |-> <<>>, kinds |-> {}, last |-> "", done |-> TRUE]

Init ==
    /\ pc = "ReadFTE"
    /\ csvFile \in FteFiles
    /\ fteChances = <<>>
    /\ rec = [s \in states |-> <<>>]
    /\ state = 1
    /\ i = 0
    /\ call = NoCall
    /\ nContracts = 0
    /\ fteOut = [s \in states |-> ""]
    /\ piOut = [s \in states |-> ""]
    /\ diagnostic = FALSE
    /\ header = FALSE
    /\ table = <<>>
    /\ badData = <<>>
    /\ insufficient = <<>>

\* lines 59-68: open and parse fte.csv, or print the diagnostic and exit(1)
ReadFiveThirtyEight ==
    /\ pc = "ReadFTE"
    /\ IF csvFile.exists
       THEN /\ fteChances' = DictReader(csvFile)
            /\ pc' = "FteLoop"
            /\ UNCHANGED diagnostic
       ELSE /\ diagnostic' = TRUE
            /\ pc' = "Exit1"
            /\ UNCHANGED fteChances
    /\ UNCHANGED <<csvFile, rec, state, i, call, nContracts, fteOut, piOut,
                   header, table, badData, insufficient>>

\* lines 69-80, one state: progress line, scan of the rows, ' good!' or ' fail!'
ReadFteChance ==
    /\ pc = "FteLoop"
    /\ LET got == FteScan(fteChances, abbrs[state], 1) IN
        /\ rec' = [rec EXCEPT ![state] = Merge(@, got.put)]
        /\ fteOut' = [fteOut EXCEPT ![state] =
                        IF got.how = "raise" THEN "..." ELSE "... " \o got.how \o "!"]
        /\ IF got.how = "raise" THEN pc' = "Traceback" /\ UNCHANGED state
           ELSE IF state < NumStates THEN pc' = "FteLoop" /\ state' = state + 1
           ELSE pc' = "PiLoop" /\ state' = 1
    /\ UNCHANGED <<csvFile, fteChances, i, call, nContracts, piOut, diagnostic,
                   header, table, badData, insufficient>>

\* line 101: the market loop goes to its next state, or the script to the printing
NextState(s) ==
    IF s < NumStates THEN pc' = "PiLoop" /\ state' = s + 1
    ELSE pc' = "Header" /\ state' = 1

\* lines 92-98 and 105-110: one iteration of range(tries) for the current state,
\* r being what requests.get does
getContentDict(r) ==
    /\ pc = "PiLoop"
    /\ LET log == (IF i = 0 THEN <<>> ELSE call.log) \o <<"get">>
           seen == (IF i = 0 THEN {} ELSE call.kinds) \cup {Kind(r)}
           ended == [of |-> state, log |-> log, kinds |-> seen, last |-> Kind(r), done |-> TRUE]
       IN
        IF r.throws \/ (Good(r) /\ ~HasContracts(r.content))
        THEN \* the exception leaves getContentDict: except: print(' fail!')
            /\ call' = ended
            /\ piOut' = [piOut EXCEPT ![state] = ".. fail!"]
            /\ i' = 0
            /\ NextState(state)
        ELSE IF Good(r)
        THEN \* return: else: print(' good!'), then the loop over the contracts
            /\ call' = ended
            /\ piOut' = [piOut EXCEPT ![state] = ".. good!"]
            /\ i' = 0
            /\ pc' = "Contracts"
            /\ UNCHANGED state
        ELSE IF InRange(i + 1, tries)
        THEN \* sleep(delay), next iteration
            /\ call' = [ended EXCEPT !.log = log \o <<"sleep">>, !.done = FALSE]
            /\ piOut' = [piOut EXCEPT ![state] = ".."]
            /\ i' = i + 1
            /\ UNCHANGED <<pc, state>>
        ELSE \* sleep(delay), range(tries) is exhausted: raise, except: print(' fail!')
            /\ call' = [ended EXCEPT !.log = log \o <<"sleep">>]
            /\ piOut' = [piOut EXCEPT ![state] = ".. fail!"]
            /\ i' = 0
            /\ NextState(state)
    /\ UNCHANGED <<csvFile, fteChances, rec, nContracts, fteOut, diagnostic,
                   header, table, badData, insufficient>>

\* lines 111-119, one contract whose BestBuyYesCost is a number
Contract(contract) ==
    /\ pc = "Contracts"
    /\ nContracts < MaxContracts
    /\ nContracts' = nContracts + 1
    /\ rec' = [rec EXCEPT ![state] =
                IF contract.Name = "Democratic"
                THEN Put(Put(@, "piDemPrice", contract.BestBuyYesCost),
                         "piDemChance", contract.BestBuyYesCost * 100)
                ELSE IF contract.Name = "Republican"
                THEN Put(Put(@, "piRepPrice", contract.BestBuyYesCost),
                         "piRepChance", contract.BestBuyYesCost * 100)
                ELSE @]
    /\ call' = NoCall
    /\ UNCHANGED <<pc, csvFile, fteChances, state, i, fteOut, piOut, diagnostic,
                   header, table, badData, insufficient>>

\* lines 111-119, one contract whose BestBuyYesCost is null: None * 100 is a
\* TypeError, raised in the else clause of the try, which nothing catches
ContractNull(name) ==
    /\ pc = "Contracts"
    /\ nContracts < MaxContracts
    /\ nContracts' = nContracts + 1
    /\ IF name = "Democratic"
       THEN rec' = [rec EXCEPT ![state] = Put(@, "piDemPrice", "None")] /\ pc' = "Traceback"
       ELSE IF name = "Republican"
       THEN rec' = [rec EXCEPT ![state] = Put(@, "piRepPrice", "None")] /\ pc' = "Traceback"
       ELSE UNCHANGED <<rec, pc>>
    /\ call' = NoCall
    /\ UNCHANGED <<csvFile, fteChances, state, i, fteOut, piOut, diagnostic,
                   header, table, badData, insufficient>>

\* line 111: the contracts list is exhausted: next state
ContractsEnd ==
    /\ pc = "Contracts"
    /\ nContracts' = 0
    /\ NextState(state)
    /\ call' = NoCall
    /\ UNCHANGED <<csvFile, fteChances, rec, i, fteOut, piOut, diagnostic,
                   header, table, badData, insufficient>>

\* lines 158-164: the header lines, badData=[]
PrintHeader ==
    /\ pc = "Header"
    /\ header' = TRUE
    /\ badData' = <<>>
    /\ pc' = "PrintLoop"
    /\ call' = NoCall
    /\ UNCHANGED <<csvFile, fteChances, rec, state, i, nContracts, fteOut, piOut,
                   diagnostic, table, insufficient>>

\* lines 165-189, one state: AttributeError on one of the four values appends to
\* badData; otherwise the row is formatted and printed (an AttributeError there
\* is uncaught)
PrintState ==
    /\ pc = "PrintLoop"
    /\ IF ~Complete(state)
       THEN /\ badData' = Append(badData, abbrs[state])
            /\ UNCHANGED table
            /\ IF state < NumStates THEN state' = state + 1 /\ UNCHANGED pc
               ELSE pc' = "BadData" /\ UNCHANGED state
       ELSE IF RowValues \subseteq DOMAIN rec[state]
       THEN /\ table' = Append(table, Row(state))
            /\ UNCHANGED badData
            /\ IF state < NumStates THEN state' = state + 1 /\ UNCHANGED pc
               ELSE pc' = "BadData" /\ UNCHANGED state
       ELSE /\ pc' = "Traceback"
            /\ UNCHANGED <<table, badData, state>>
    /\ UNCHANGED <<csvFile, fteChances, rec, i, call, nContracts, fteOut, piOut,
                   diagnostic, header, insufficient>>

\* lines 191-192 and the end of the script
PrintBadData ==
    /\ pc = "BadData"
    /\ insufficient' = IF Len(badData) > 0 THEN badData ELSE <<>>
    /\ pc' = "Done"
    /\ UNCHANGED <<csvFile, fteChances, rec, state, i, call, nContracts, fteOut, piOut,
                   diagnostic, header, table, badData>>

Next ==
    \/ ReadFiveThirtyEight
    \/ ReadFteChance
    \/ \E r \in Responses : getContentDict(r)
    \/ \E contract \in Contracts : Contract(contract)
    \/ \E name \in Names : ContractNull(name)
    \/ ContractsEnd
    \/ PrintHeader
    \/ PrintState
    \/ PrintBadData

Spec == Init /\ [][Next]_vars

\* the exit status of the process once it has ended: 0 at the end of the script,
\* 1 from exit(1) and from an uncaught exception
ExitStatus == IF pc = "Done" THEN 0 ELSE 1

\* ------------------------------------------------------------ properties
Gets(log) == Cardinality({n \in DOMAIN log : log[n] = "get"})

\* every request but the first comes right after a sleep
Spaced(log) == \A n \in DOMAIN log : (log[n] = "get" /\ n > 1) => log[n - 1] = "sleep"

NoMarketFields(s) == "piDemPrice" \notin DOMAIN rec[s] /\ "piRepPrice" \notin DOMAIN rec[s]

StateOf(abbr) == CHOOSE s \in states : abbrs[s] = abbr

\* C1: an attempt that throws, or returns a status other than 200, or returns the
\* body null, while fewer than tries attempts were made for the state, is followed
\* by another attempt for that state before the state is declared failed.
C1_SoftFailureIsRetried ==
    (call.of # 0 /\ call.last \in {"throws", "non200", "null"} /\ Gets(call.log) < tries)
        => /\ ~call.done
           /\ pc = "PiLoop" /\ state = call.of
           /\ piOut[call.of] # ".. fail!"

\* C2: once the market phase has begun (fte.csv was read and every forecast line
\* printed), nothing the endpoint answers ends the run abnormally: the script
\* never dies with a traceback, and it ends with exit status 0 with every state
\* of the list processed.
C2_MarketFailureNeverFatal ==
    (\E s \in states : piOut[s] # "")
        => /\ pc # "Traceback"
           /\ (pc = "Done" =>
                /\ ExitStatus = 0
                /\ \A s \in states : piOut[s] \in {".. good!", ".. fail!"})

\* C3: after the market phase every state has piDemPrice and piRepPrice either
\* both absent or both present with a value in [0,1].
C3_MarketFieldsBothOrNeither ==
    pc \in {"Header", "PrintLoop", "BadData", "Done"} =>
        \A s \in states :
            \/ NoMarketFields(s)
            \/ /\ {"piDemPrice", "piRepPrice"} \subseteq DOMAIN rec[s]
               /\ rec[s]["piDemPrice"] >= 0 /\ rec[s]["piDemPrice"] <= 1000
               /\ rec[s]["piRepPrice"] >= 0 /\ rec[s]["piRepPrice"] <= 1000

\* C4: with fte.csv missing, or with a header that lacks state, dem or rep, the
\* run stops at once with the diagnostic and exit status 1: no progress line of
\* a state, no request and no table line is ever printed.
C4_UnusableFileAborts ==
    (~csvFile.exists \/ ~({"state", "dem", "rep"} \subseteq Range(csvFile.fieldnames)))
        => /\ pc \in {"ReadFTE", "Exit1"}
           /\ (pc = "Exit1" => diagnostic /\ ExitStatus = 1)
           /\ \A s \in states : fteOut[s] = "" /\ piOut[s] = ""
           /\ ~header /\ table = <<>>

\* C5: a call all of whose attempts returned a status other than 200 has made
\* exactly tries requests, with a sleep before each request but the first, has
\* printed ' fail!' for the state and has left both market fields absent.
C5_RetryExhaustion ==
    (call.done /\ call.kinds = {"non200"})
        => /\ Gets(call.log) = tries
           /\ Spaced(call.log)
           /\ piOut[call.of] = ".. fail!"
           /\ NoMarketFields(call.of)

C5_Witness ==
    /\ call.done /\ call.kinds = {"non200"} /\ call.of = NumStates
    /\ pc = "Header"

\* C6: every state the printing loop has passed is either a row of the table or
\* an entry of badData, never both, and it is a row exactly when all four values
\* are present; rows and badData keep the order of the state list; the loop never
\* dies; the 'Insufficient data' line lists badData.
AllFour(s) ==
    {"fteDemChance", "fteRepChance", "piDemPrice", "piRepPrice"} \subseteq DOMAIN rec[s]

Printed(s) == \E n \in DOMAIN table : table[n].abbr = abbrs[s]

Listed(s) == \E n \in DOMAIN badData : badData[n] = abbrs[s]

Passed(s) == pc \in {"BadData", "Done"} \/ (pc = "PrintLoop" /\ s < state)

C6_Partition ==
    /\ header => pc # "Traceback"
    /\ \A s \in states :
        IF header /\ Passed(s)
        THEN (Printed(s) <=> AllFour(s)) /\ (Listed(s) <=> ~Printed(s))
        ELSE ~Printed(s) /\ ~Listed(s)
    /\ \A m, n \in DOMAIN table : m < n => StateOf(table[m].abbr) < StateOf(table[n].abbr)
    /\ \A m, n \in DOMAIN badData : m < n => StateOf(badData[m]) < StateOf(badData[n])
    /\ pc = "Done" => insufficient = badData
    /\ pc # "Done" => insufficient = <<>>

C6_Witness ==
    /\ pc = "Done"
    /\ \E s \in states : Printed(s)
    /\ \E s \in states :
        /\ \E n \in DOMAIN insufficient : insufficient[n] = abbrs[s]
        /\ {"piDemPrice", "piRepPrice"} \subseteq DOMAIN rec[s]
        /\ "fteDemChance" \notin DOMAIN rec[s]

\* C7 as stated: after the forecast phase every state has fteDemChance and
\* fteRepChance either both absent or both present with a value in [0,100]; a
\* state no row matches has both absent, and the first matching row supplies both.
FteRan == \A s \in states : fteOut[s] \in {"... good!", "... fail!"}

Matches(s) ==
    {n \in DOMAIN fteChances :
        "state" \in DOMAIN fteChances[n] /\ fteChances[n]["state"] = abbrs[s]}

FirstMatch(s) == fteChances[CHOOSE n \in Matches(s) : \A m \in Matches(s) : n <= m]

FromFirstMatch(s) ==
    IF Matches(s) = {}
    THEN "fteDemChance" \notin DOMAIN rec[s] /\ "fteRepChance" \notin DOMAIN rec[s]
    ELSE /\ {"fteDemChance", "fteRepChance"} \subseteq DOMAIN rec[s]
         /\ FirstMatch(s)["dem"] \in Floats /\ FirstMatch(s)["rep"] \in Floats
         /\ rec[s]["fteDemChance"] = float(FirstMatch(s)["dem"])
         /\ rec[s]["fteRepChance"] = float(FirstMatch(s)["rep"])

Signed(d) == (IF d > 0 THEN "+" ELSE "") \o format(d)

C8_DiffSign ==
    \A n \in DOMAIN table :
        LET s == StateOf(table[n].abbr) IN
            /\ table[n].demDiff = Signed(rec[s]["piDemPrice"] * 100 - rec[s]["fteDemChance"])
            /\ table[n].repDiff = Signed(rec[s]["piRepPrice"] * 100 - rec[s]["fteRepChance"])

\* C9: an attempt that returned 200 with the body null is no success: it counts
\* as one attempt and, while attempts remain, is followed by another one; a call
\* all of whose attempts returned 200/null ends with ' fail!' and leaves both
\* market fields absent.
C9_NullBody ==
    /\ (call.of # 0 /\ call.last = "null") =>
        /\ piOut[call.of] # ".. good!"
        /\ IF Gets(call.log) < tries
           THEN ~call.done /\ pc = "PiLoop" /\ state = call.of /\ i = Gets(call.log)
           ELSE call.done /\ piOut[call.of] = ".. fail!"
    /\ (call.done /\ call.kinds = {"null"}) =>
        /\ Gets(call.log) = tries
        /\ piOut[call.of] = ".. fail!"
        /\ NoMarketFields(call.of)

C9_Witness ==
    /\ call.done /\ call.kinds = {"null"} /\ Gets(call.log) = tries
    /\ piOut[call.of] = ".. fail!"

\* C10: a call stops at its first attempt that returns 200 with a body other than
\* null; the requests of an ended call number tries unless its last attempt was
\* such a success, and never more than tries.
C10_RequestCount ==
    /\ Gets(call.log) <= tries
    /\ "ok" \in call.kinds => call.done /\ call.last = "ok"
    /\ (call.of # 0 /\ call.done) => (call.last = "ok" \/ Gets(call.log) = tries)

====
